---- MODULE Spec2Model ----
(***************************************************************************)
(* state-repo.js: a StateRepo maps ids to States; a State has a value, at  *)
(* most one StateWriter and a Set of StateReaders whose changeListeners    *)
(* the writer fires synchronously from set / setValue.                     *)
(*                                                                         *)
(* JavaScript is single threaded, so the program is modelled as one call   *)
(* stack.  A frame is a fan-out loop of set/setValue stopped inside the    *)
(* listener it is calling, or the single listener call made by reader().   *)
(* A step is what user code does next: top-level code (empty stack) or the *)
(* running listener either calls an operation of the API, which runs up to *)
(* the next listener call or to its return, or the listener returns.       *)
(***************************************************************************)
EXTENDS Integers, Sequences, FiniteSets, TLC

\* ---------------------------------------------------------------- bounds
MaxId == 2
MaxValue == 1
MaxReaders == 2
MaxWriters == 2
MaxDepth == 2
MaxRepo == 2

Ids == 1..MaxId
Values == 1..MaxValue

\* the StateRepo instances: the exported default one and those user code
\* constructs
Repos == 1..MaxRepo

\* faulty variant: one Map shared by every StateRepo instance
stateKeyShared(repo, id) ==
    id

\* the State an instance keeps for an id.  Every StateRepo has a Map of its
\* own (`this._map = new Map()`), so the pair (instance, id) names the
\* State; the pair is numbered, the ids of instance 1 coming first, and the
\* State is kept under that number (for instance 1: under the id itself).
stateKey(repo, id) ==
    (repo - 1) * MaxId + id

\* the instance and the id a State is kept under
repoOf(k) == ((k - 1) \div MaxId) + 1

idOf(k) == ((k - 1) % MaxId) + 1

\* JavaScript's undefined: the value of a State nobody wrote, an omitted
\* initialValue, an empty writer slot, a variable not assigned yet.
Undefined == 0
ValuesU == Values \cup {Undefined}

VARIABLES
    map,            \* StateRepo._map: id -> State
    readerHandles,  \* every StateReader constructed so far, by handle number
    writerHandles,  \* every StateWriter constructed so far, by handle number
    stack           \* the call stack: one frame per running listener call

vars == <<map, readerHandles, writerHandles, stack>>

\* ------------------------------------------------------------ the objects

\* new State(id)
State(id) ==
    [id |-> id, value |-> Undefined, writer |-> Undefined, readers |-> <<>>]

\* new StateReader(state, changeListener): field _registered starts true
StateReader(id) ==
    [state |-> id, registered |-> TRUE]

\* new StateWriter(state, repo): field _registered starts true.  holder is
\* whether the caller of writer() has received the reference yet.
StateWriter(id) ==
    [state |-> id, registered |-> TRUE, holder |-> FALSE]

\* Set.prototype.add on an insertion-ordered Set: a present element keeps
\* its place, a new one goes last.
SetAdd(s, r) ==
    IF \E i \in 1..Len(s) : s[i] = r THEN s ELSE Append(s, r)

\* position of r in the Set, 0 if absent
SetIndex(s, r) ==
    IF \E i \in 1..Len(s) : s[i] = r
    THEN CHOOSE i \in 1..Len(s) : s[i] = r
    ELSE 0

\* Set.prototype.delete
SetDelete(s, r) ==
    LET p == SetIndex(s, r)
    IN IF p = 0 THEN s ELSE SubSeq(s, 1, p - 1) \o SubSeq(s, p + 1, Len(s))

SetMembers(s) == {s[i] : i \in 1..Len(s)}

\* faulty variant: a new State is stored for the id at every request
getOrCreateReplaces(m, id) ==
    (id :> State(id)) @@ m

\* this._map.get(id), creating the State when absent
getOrCreate(m, id) ==
    IF id \in DOMAIN m THEN m ELSE m @@ (id :> State(id))


\* --------------------------------------------------------- pure methods

\* faulty variant: the handle is marked registered but not added to the Set
registerReaderNoAdd(m, hs, r) ==
    IF hs[r].registered
    THEN [ret |-> "false", map |-> m, handles |-> hs]
    ELSE [ret |-> "true", map |-> m,
          handles |-> [hs EXCEPT ![r].registered = TRUE]]

\* StateReader.register()
registerReader(m, hs, r) ==
    IF hs[r].registered
    THEN [ret |-> "false", map |-> m, handles |-> hs]
    ELSE [ret |-> "true",
          map |-> [m EXCEPT ![hs[r].state].readers = SetAdd(@, r)],
          handles |-> [hs EXCEPT ![r].registered = TRUE]]

\* faulty variant: the reader leaves the Set but its _registered stays true
unregisterReaderKeepsFlag(m, hs, r) ==
    IF ~hs[r].registered
    THEN [ret |-> "false", map |-> m, handles |-> hs]
    ELSE [ret |-> "true",
          map |-> [m EXCEPT ![hs[r].state].readers = SetDelete(@, r)],
          handles |-> hs]

\* StateReader.unregister()
unregisterReader(m, hs, r) ==
    IF ~hs[r].registered
    THEN [ret |-> "false", map |-> m, handles |-> hs]
    ELSE [ret |-> "true",
          map |-> [m EXCEPT ![hs[r].state].readers = SetDelete(@, r)],
          handles |-> [hs EXCEPT ![r].registered = FALSE]]

\* faulty variant: the handle is marked unregistered but the State keeps it as writer
unregisterWriterKeepsSlot(m, ws, w) ==
    IF ~ws[w].registered
    THEN [ret |-> "false", map |-> m, handles |-> ws]
    ELSE [ret |-> "true", map |-> m,
          handles |-> [ws EXCEPT ![w].registered = FALSE]]

\* StateWriter.unregister()
unregisterWriter(m, ws, w) ==
    IF ~ws[w].registered
    THEN [ret |-> "false", map |-> m, handles |-> ws]
    ELSE [ret |-> "true",
          map |-> [m EXCEPT ![ws[w].state].writer = Undefined],
          handles |-> [ws EXCEPT ![w].registered = FALSE]]

\* faulty variant: the check for an existing writer is missing
writerConflictNever(m, id) ==
    FALSE

\* StateRepo.writer: `else if (state.writer) throw`
writerConflict(m, id) ==
    id \in DOMAIN m /\ m[id].writer # Undefined

\* StateRepo.writer after the check: the new StateWriter takes the slot
writerNew(m, ws, id) ==
    LET w == Len(ws) + 1
    IN [w |-> w,
        map |-> [getOrCreate(m, id) EXCEPT ![id].writer = w],
        handles |-> Append(ws, StateWriter(id))]

\* StateRepo.reader up to the listener call: the new StateReader joins the Set
readerNew(m, hs, id) ==
    LET r == Len(hs) + 1
    IN [r |-> r,
        map |-> [getOrCreate(m, id) EXCEPT ![id].readers = SetAdd(@, r)],
        handles |-> Append(hs, StateReader(id))]

\* faulty variant: the listener is called whether or not the State has a value
readerReplaysAlways(st) ==
    TRUE

\* StateRepo.reader: `if (state.value !== undefined) changeListener(...)`
readerReplays(st) ==
    st.value # Undefined

\* faulty variant: the initial value is never written
writerSetsInitialNever(initialValue) ==
    FALSE

\* StateRepo.writer: `if (initialValue !== undefined) writer.setValue(...)`
writerSetsInitial(initialValue) ==
    initialValue # Undefined

\* StateWriter.setValue / set: `this._state.value = newValue`.  Neither
\* method looks at this._registered.
assignValue(m, ws, w, newValue) ==
    [m EXCEPT ![ws[w].state].value = newValue]

\* faulty variant: the initial value is stored before the check for an existing writer
writerAssignsFirst(m, ws, id, initialValue) ==
    LET m1 == getOrCreate(m, id)
        m2 == IF initialValue # Undefined THEN [m1 EXCEPT ![id].value = initialValue] ELSE m1
    IN IF writerConflict(m, id)
       THEN [threw |-> TRUE, sets |-> FALSE, w |-> Undefined, map |-> m2, handles |-> ws]
       ELSE LET n == writerNew(m2, ws, id)
            IN [threw |-> FALSE, sets |-> initialValue # Undefined, w |-> n.w,
                map |-> n.map, handles |-> n.handles]

\* StateRepo.writer up to the loop of setValue: what it has done to the
\* repository when it throws, or when it is about to notify (sets) or return
writer(m, ws, id, initialValue) ==
    IF writerConflict(m, id)
    THEN [threw |-> TRUE, sets |-> FALSE, w |-> Undefined, map |-> m, handles |-> ws]
    ELSE LET n == writerNew(m, ws, id)
         IN IF writerSetsInitial(initialValue)
            THEN [threw |-> FALSE, sets |-> TRUE, w |-> n.w,
                  map |-> assignValue(n.map, n.handles, n.w, initialValue),
                  handles |-> n.handles]
            ELSE [threw |-> FALSE, sets |-> FALSE, w |-> n.w,
                  map |-> n.map, handles |-> n.handles]

\* the functions a caller may pass to set(f): mutate-and-return (the same
\* value), count => count + 1, and the constant functions (a function that
\* forgets its return statement yields undefined)
UpdateFns ==
    {[x \in ValuesU |-> x], [x \in ValuesU |-> IF x >= MaxValue THEN 1 ELSE x + 1]}
        \cup {[x \in ValuesU |-> v] : v \in ValuesU}

\* StateWriter.set: `const newValue = f(this._state.value)`
applyUpdate(f, m, ws, w) ==
    f[m[ws[w].state].value]

\* ------------------------------------------------------------- the stack

\* the frame of a fan-out loop `for (let r of this._state.readers)` that is
\* about to start.  idx readers of the Set are behind the iterator; cur is
\* the reader whose listener is running, called with (argValue, argHandle).
\* Observers follow one pass at a time, the outermost (obs): snapshot (the
\* readers registered when it began), seen (the readers whose listener was
\* called with its value), dup (a listener was called a second time with
\* it), selfUnreg (a listener unregistered its own reader), otherReg (any
\* other registration change of this State happened meanwhile).
PassFrame(id, w, newValue, m, obs) ==
    [kind |-> "pass", id |-> id, w |-> w, newValue |-> newValue, idx |-> 0,
     cur |-> Undefined, argValue |-> Undefined, argHandle |-> Undefined,
     obs |-> obs,
     snapshot |-> IF obs THEN SetMembers(m[id].readers) ELSE {},
     seen |-> {}, dup |-> FALSE, selfUnreg |-> FALSE, otherReg |-> FALSE]

\* the frame of reader()'s `changeListener(state.value, reader)`
ReplayFrame(id, r, v) ==
    [kind |-> "reader", id |-> id, w |-> Undefined, newValue |-> v, idx |-> 0,
     cur |-> r, argValue |-> v, argHandle |-> r,
     obs |-> FALSE,
     snapshot |-> {}, seen |-> {}, dup |-> FALSE,
     selfUnreg |-> FALSE, otherReg |-> FALSE]

\* the loop body `r._changeListener(newValue, r)` for the reader r the
\* iterator yields
callListener(f, r) ==
    [f EXCEPT !.idx = @ + 1,
              !.cur = r, !.argValue = f.newValue, !.argHandle = r,
              !.dup = @ \/ (f.obs /\ r \in f.seen),
              !.seen = IF f.obs THEN @ \cup {r} ELSE @]

\* faulty variant: the loop stops one reader early
loopDoneEarly(f, m) ==
    f.idx + 1 >= Len(m[f.id].readers)

\* the loop head of `for (let r of this._state.readers)`: the iterator of
\* the live Set is exhausted
loopDone(f, m) ==
    f.idx >= Len(m[f.id].readers)

\* the loop of frame f goes on above the frames stk: it calls the listener
\* of the next reader, or ends and set / setValue returns
loopNext(stk, f, m) ==
    IF loopDone(f, m)
    THEN stk
    ELSE Append(stk, callListener(f, m[f.id].readers[f.idx + 1]))

Top == stack[Len(stack)]

Below == SubSeq(stack, 1, Len(stack) - 1)

\* no pass is running: the next one is the outermost
Outermost == \A i \in 1..Len(stack) : stack[i].kind # "pass"

\* a new frame fits unless the call stack is at its bound
CanPush == Len(stack) < MaxDepth

\* faulty variant: iteration by index over an array that delete() splices
iterAfterDeleteKeepsIndex(stk, id, p) ==
    stk

\* a live Set iterator skips a deleted element it has not reached and keeps
\* its place when one behind it is deleted: deleting position p moves every
\* iterator of that Set that is past p back by one.
iterAfterDelete(stk, id, p) ==
    [i \in 1..Len(stk) |->
        IF stk[i].kind = "pass" /\ stk[i].id = id /\ p > 0 /\ p <= stk[i].idx
        THEN [stk[i] EXCEPT !.idx = @ - 1]
        ELSE stk[i]]

\* observer: a registration of State id changed while these passes ran;
\* self is whether the running listener unregistered its own reader.
noteReg(stk, id, self) ==
    [i \in 1..Len(stk) |->
        IF stk[i].obs /\ stk[i].id = id
        THEN IF self /\ i = Len(stk)
             THEN [stk[i] EXCEPT !.selfUnreg = TRUE]
             ELSE [stk[i] EXCEPT !.otherReg = TRUE]
        ELSE stk[i]]

\* observer: reader() called the listener of the new reader r with value v
\* while these passes ran
noteReplay(stk, id, r, v) ==
    [i \in 1..Len(stk) |->
        IF stk[i].obs /\ stk[i].id = id /\ stk[i].newValue = v
        THEN [stk[i] EXCEPT !.seen = @ \cup {r}]
        ELSE stk[i]]

\* an exception leaves through the running listeners and loops until some
\* caller catches it: the frames above j are abandoned (j = 0: nobody
\* catches it)
Unwind(stk, j) == SubSeq(stk, 1, j)

\* ids are opaque: they are taken into use in order (with several
\* instances: the States, in the order of their numbers)
Fresh(id) == id = 1 \/ (id - 1) \in DOMAIN map

\* ---------------------------------------------------------------- Init

Init ==
    /\ map = <<>>
    /\ readerHandles = <<>>
    /\ writerHandles = <<>>
    /\ stack = <<>>

\* ------------------------------------------------------------- StateRepo

\* repo.reader(id, changeListener)
Reader(id) ==
    /\ Fresh(id)
    /\ Len(readerHandles) < MaxReaders
    /\ LET n == readerNew(map, readerHandles, id)
           st == n.map[id]
       IN /\ map' = n.map
          /\ readerHandles' = n.handles
          /\ IF readerReplays(st)
             THEN /\ CanPush
                  /\ stack' = Append(noteReplay(noteReg(stack, id, FALSE), id, n.r, st.value),
                                     ReplayFrame(id, n.r, st.value))
             ELSE stack' = noteReg(stack, id, FALSE)
    /\ UNCHANGED writerHandles

\* repo.writer(id, initialValue)
Writer(id, initialValue) ==
    LET o == writer(map, writerHandles, id, initialValue)
    IN IF o.threw
       THEN /\ \E j \in 0..Len(stack) : stack' = Unwind(stack, j)
            /\ map' = o.map
            /\ writerHandles' = o.handles
            /\ UNCHANGED readerHandles
       ELSE /\ Fresh(id)
            /\ Len(writerHandles) < MaxWriters
            /\ map' = o.map
            /\ IF o.sets
               THEN LET f == PassFrame(id, o.w, initialValue, o.map, Outermost)
                    IN /\ CanPush
                       /\ stack' = loopNext(stack, f, o.map)
                       /\ writerHandles' = [o.handles EXCEPT ![o.w].holder = loopDone(f, o.map)]
               ELSE /\ stack' = stack
                    /\ writerHandles' = [o.handles EXCEPT ![o.w].holder = TRUE]
            /\ UNCHANGED readerHandles

\* ----------------------------------------------------------- StateWriter

\* the writers whose reference user code holds
Held == {w \in 1..Len(writerHandles) : writerHandles[w].holder}

\* the body shared by setValue and set once newValue is known: assign, then
\* loop over this._state.readers
startPass(w, newValue) ==
    LET id == writerHandles[w].state
        m == assignValue(map, writerHandles, w, newValue)
    IN /\ CanPush
       /\ map' = m
       /\ stack' = loopNext(stack, PassFrame(id, w, newValue, m, Outermost), m)
       /\ UNCHANGED <<readerHandles, writerHandles>>

\* writer.setValue(newValue)
SetValue(w, newValue) ==
    /\ w \in Held
    /\ startPass(w, newValue)

\* writer.set(f)
Set(w, f) ==
    /\ w \in Held
    /\ startPass(w, applyUpdate(f, map, writerHandles, w))

\* writer.unregister()
WriterUnregister(w) ==
    /\ w \in Held
    /\ LET u == unregisterWriter(map, writerHandles, w)
       IN /\ map' = u.map
          /\ writerHandles' = u.handles
    /\ UNCHANGED <<readerHandles, stack>>

\* the running listener returns: to reader(), which returns to its caller,
\* or to the loop, which calls the next listener or ends, set / setValue
\* returns and, when writer() made that call, writer() hands out the handle
ListenerReturn ==
    /\ stack # <<>>
    /\ IF Top.kind = "reader"
       THEN /\ stack' = Below
            /\ UNCHANGED writerHandles
       ELSE /\ stack' = loopNext(Below, Top, map)
            /\ writerHandles' = IF loopDone(Top, map)
                                THEN [writerHandles EXCEPT ![Top.w].holder = TRUE]
                                ELSE writerHandles
    /\ UNCHANGED <<map, readerHandles>>

\* ----------------------------------------------------------- StateReader

\* reader.register()
ReaderRegister(r) ==
    /\ r \in 1..Len(readerHandles)
    /\ LET u == registerReader(map, readerHandles, r)
       IN /\ map' = u.map
          /\ readerHandles' = u.handles
          /\ stack' = IF u.ret = "true"
                      THEN noteReg(stack, readerHandles[r].state, FALSE)
                      ELSE stack
    /\ UNCHANGED writerHandles

\* reader.unregister()
ReaderUnregister(r) ==
    /\ r \in 1..Len(readerHandles)
    /\ LET u == unregisterReader(map, readerHandles, r)
           id == readerHandles[r].state
           p == SetIndex(map[id].readers, r)
       IN /\ map' = u.map
          /\ readerHandles' = u.handles
          /\ stack' = IF u.ret = "true"
                      THEN noteReg(iterAfterDelete(stack, id, p), id,
                                   stack # <<>> /\ Top.cur = r)
                      ELSE stack
    /\ UNCHANGED writerHandles

\* ---------------------------------------------------------------- Next

Next ==
    \/ \E id \in Ids : Reader(id)
    \/ \E id \in Ids, v \in ValuesU : Writer(id, v)
    \/ \E w \in 1..MaxWriters, v \in ValuesU : SetValue(w, v)
    \/ \E w \in 1..MaxWriters, f \in UpdateFns : Set(w, f)
    \/ \E w \in 1..MaxWriters : WriterUnregister(w)
    \/ \E r \in 1..MaxReaders : ReaderRegister(r)
    \/ \E r \in 1..MaxReaders : ReaderUnregister(r)
    \/ ListenerReturn

Spec == Init /\ [][Next]_vars


\* ======================================================================
\* The claims
\* ======================================================================

Readers == 1..Len(readerHandles)

Writers == 1..Len(writerHandles)

\* the writer handles of State id whose registered() is true
RegisteredWriters(id) ==
    {w \in Writers : writerHandles[w].state = id /\ writerHandles[w].registered}

\* the reader handles of State id whose registered() is true
RegisteredReaders(id) ==
    {r \in Readers : readerHandles[r].state = id /\ readerHandles[r].registered}

\* C1: in every reachable state and for every id and initial value,
\* writer(id, initialValue) throws exactly when some writer handle of id is
\* registered; when it does not throw, the handle it creates is registered,
\* is bound to id and holds the writer slot of the State.
C1_WriterThrowsIffRegistered ==
    \A id \in Ids, v \in ValuesU :
        LET o == writer(map, writerHandles, id, v)
        IN /\ o.threw <=> RegisteredWriters(id) # {}
           /\ ~o.threw =>
                 /\ o.handles[o.w].registered
                 /\ o.handles[o.w].state = id
                 /\ o.map[id].writer = o.w

\* C1 witness: the first writer of State 1 has unregistered, a second
\* writer(1) call has succeeded and is registered, so a third would throw
C1_Witness ==
    /\ Len(writerHandles) = 2
    /\ writerHandles[1].state = 1 /\ ~writerHandles[1].registered
    /\ writerHandles[2].state = 1 /\ writerHandles[2].registered
    /\ writer(map, writerHandles, 1, Undefined).threw

\* C2: a writer(id, initialValue) call that throws changes nothing: the
\* map (every State's value, writer slot and reader Set) and all handles
\* are as before and no listener is called (the stack only loses the
\* frames the exception leaves), whatever initialValue was passed.
C2_ThrowBeforeMutation ==
    [][\A id \in Ids, v \in ValuesU :
          (writerConflict(map, id) /\ Writer(id, v)) =>
              /\ map' = map
              /\ writerHandles' = writerHandles
              /\ readerHandles' = readerHandles
              /\ Len(stack') <= Len(stack)
              /\ stack' = SubSeq(stack, 1, Len(stack')) ]_vars

\* C2 witness: inside a listener of State 1, whose value is undefined and
\* whose writer is registered, where writer(1, 1) would throw
C2_Witness ==
    /\ stack # <<>>
    /\ Top.id = 1
    /\ map[1].value = Undefined
    /\ map[1].readers # <<>>
    /\ writer(map, writerHandles, 1, 1).threw

\* C3: in every reachable state, for every id, at most one writer handle of
\* id is registered, and the writer slot of the State holds exactly that
\* handle: it is empty iff no writer handle of id is registered.
C3_SingleRegisteredWriter ==
    \A id \in Ids :
        /\ Cardinality(RegisteredWriters(id)) <= 1
        /\ IF id \in DOMAIN map /\ map[id].writer # Undefined
           THEN RegisteredWriters(id) = {map[id].writer}
           ELSE RegisteredWriters(id) = {}

\* C3 witness: State 1 has had two writer handles, the second is registered
\* and in the slot, the first is unregistered
C3_Witness ==
    /\ Len(writerHandles) = 2
    /\ writerHandles[1].state = 1 /\ ~writerHandles[1].registered
    /\ writerHandles[2].state = 1 /\ writerHandles[2].registered
    /\ map[1].writer = 2

\* C4 (the claim as stated): set / setValue called on a writer handle that
\* has been unregistered changes no State and calls no listener.
C4_UnregisteredWriterCannotWrite ==
    [][\A w \in Writers :
          (/\ w \in Held
           /\ ~writerHandles[w].registered
           /\ \/ \E v \in ValuesU : SetValue(w, v)
              \/ \E f \in UpdateFns : Set(w, f))
          => UNCHANGED <<map, stack>> ]_vars


\* a step in which a listener is called: by a set / setValue / writer /
\* reader call (a new frame) or by a loop going on after a listener returned
ListenerEntered ==
    \/ Len(stack') = Len(stack) + 1
    \/ /\ Len(stack') = Len(stack)
       /\ stack' # stack
       /\ map' = map
       /\ readerHandles' = readerHandles

\* a step in which the outermost pass ends: its last listener returns, the
\* loop finds the iterator exhausted and set / setValue returns
PassEnds ==
    /\ stack # <<>>
    /\ Top.obs
    /\ loopDone(Top, map)
    /\ ListenerReturn

\* every frame's listener was called with the value of its set / setValue
\* call (for reader(): the State's value) and with its own reader handle,
\* and that reader is bound to the State the call was for
ListenerArguments ==
    \A i \in 1..Len(stack) :
        /\ stack[i].argValue = stack[i].newValue
        /\ stack[i].argHandle = stack[i].cur
        /\ stack[i].cur \in Readers
        /\ readerHandles[stack[i].cur].state = stack[i].id

\* C5: when a set / setValue call (an outermost one) returns and no
\* listener changed a registration of its State meanwhile, the listeners
\* that were called are exactly those of the readers registered on that
\* State when the call began, each once; and every listener call is made
\* with the new value and the reader's own handle, for a reader bound to
\* that State.
C5_FanOut ==
    /\ []ListenerArguments
    /\ [][(PassEnds /\ ~Top.selfUnreg /\ ~Top.otherReg) =>
             /\ Top.seen = Top.snapshot
             /\ ~Top.dup
             /\ Top.snapshot = RegisteredReaders(Top.id) ]_vars


\* C5 witness: the last listener of an undisturbed pass over two readers is
\* running and both have been called
C5_Witness ==
    /\ stack # <<>>
    /\ Top.obs /\ ~Top.selfUnreg /\ ~Top.otherReg
    /\ loopDone(Top, map)
    /\ Cardinality(Top.snapshot) = 2
    /\ Top.seen = Top.snapshot

\* a step in which reader(id, changeListener) is called
ReaderStep(id) ==
    /\ Len(readerHandles') = Len(readerHandles) + 1
    /\ readerHandles'[Len(readerHandles')].state = id

\* a step of set, setValue or writer
WriteStep ==
    \/ \E w \in Writers, v \in ValuesU : SetValue(w, v)
    \/ \E w \in Writers, f \in UpdateFns : Set(w, f)
    \/ \E id \in Ids, v \in ValuesU : Writer(id, v)

\* C6 (amended): reader(id, changeListener) returns a registered handle; if
\* the State's current value is not undefined, the listener is called once,
\* with that value and the new handle, before reader() returns and without
\* a write; if it is undefined (the id is new, nothing was written, or
\* undefined was written), no listener is called and value() stays
\* undefined; and a State's value changes only in a step of set, setValue
\* or writer.
C6_ReplayIffDefined ==
    [][/\ \A id \in Ids :
            ReaderStep(id) =>
              LET r == Len(readerHandles')
                  v == IF id \in DOMAIN map THEN map[id].value ELSE Undefined
              IN /\ readerHandles'[r].registered
                 /\ map'[id].value = v
                 /\ IF v # Undefined
                    THEN /\ Len(stack') = Len(stack) + 1
                         /\ stack'[Len(stack')].kind = "reader"
                         /\ stack'[Len(stack')].cur = r
                         /\ stack'[Len(stack')].argValue = v
                         /\ stack'[Len(stack')].argHandle = r
                    ELSE /\ Len(stack') = Len(stack)
                         /\ \A i \in 1..Len(stack) :
                               /\ stack'[i].cur = stack[i].cur
                               /\ stack'[i].idx = stack[i].idx
       /\ \A id \in DOMAIN map :
            map'[id].value # map[id].value => WriteStep ]_vars

\* C6 witness: reader()'s call of the new reader's listener is running, with
\* the State's value, which is not undefined
C6_Witness ==
    /\ stack # <<>>
    /\ Top.kind = "reader"
    /\ Top.cur = Len(readerHandles)
    /\ Top.argValue = map[Top.id].value
    /\ Top.argValue # Undefined

\* C6 (the claim as stated): once a value has been written to the State of
\* id (here: a set / setValue for id is running, its assignment done),
\* reader(id, changeListener) calls the listener.
C6_ReplayIfWritten ==
    [][\A id \in Ids :
          (/\ ReaderStep(id)
           /\ \E i \in 1..Len(stack) : stack[i].kind = "pass" /\ stack[i].id = id)
          => /\ Len(stack') = Len(stack) + 1
             /\ stack'[Len(stack')].kind = "reader" ]_vars

\* the readers' Set of a State holds exactly its registered reader handles
RegisteredIffMember ==
    \A r \in Readers :
        readerHandles[r].registered
            <=> r \in SetMembers(map[readerHandles[r].state].readers)

\* C7: a listener is only ever called for a reader that is registered at
\* that moment; register() and unregister() call no listener (no replay);
\* the readers' Set holds exactly the registered readers, so that after any
\* unregister() / register() cycles a registered reader is again among the
\* readers a pass notifies: when an undisturbed pass ends, the readers of
\* its State whose listener it called are exactly the registered ones.
C7_DeliveryFollowsRegistration ==
    /\ []RegisteredIffMember
    /\ [][/\ ListenerEntered =>
               readerHandles'[stack'[Len(stack')].cur].registered
          /\ (\E r \in Readers : readerHandles'[r].registered # readerHandles[r].registered) =>
               /\ Len(stack') = Len(stack)
               /\ \A i \in 1..Len(stack) :
                     /\ stack'[i].cur = stack[i].cur
                     /\ stack'[i].seen = stack[i].seen
          /\ (PassEnds /\ ~Top.selfUnreg /\ ~Top.otherReg) =>
               \A r \in Readers :
                   readerHandles[r].state = Top.id =>
                       (r \in Top.seen <=> readerHandles[r].registered) ]_vars

\* C7 witness: reader 1 was unregistered and registered again (it is behind
\* reader 2 in the Set) and an undisturbed pass is calling its listener
C7_Witness ==
    /\ stack # <<>>
    /\ Top.obs /\ ~Top.selfUnreg /\ ~Top.otherReg
    /\ map[Top.id].readers = <<2, 1>>
    /\ Top.cur = 1
    /\ Top.seen = {1, 2}


\* C8: in every reachable state, on every reader and writer handle:
\* unregister() returns true iff the handle was registered, and an
\* unregister() right after that returns false; register() on a reader
\* returns false iff it was registered, true otherwise, and a register()
\* right after that returns false; a call that returns false leaves the
\* map and the handles as they were.
C8_RegistrationIdempotent ==
    /\ \A r \in Readers :
          LET u == unregisterReader(map, readerHandles, r)
              g == registerReader(map, readerHandles, r)
          IN /\ u.ret = "true" <=> readerHandles[r].registered
             /\ u.ret = "true" =>
                   /\ ~u.handles[r].registered
                   /\ unregisterReader(u.map, u.handles, r).ret = "false"
                   /\ registerReader(u.map, u.handles, r).ret = "true"
             /\ u.ret = "false" => (u.map = map /\ u.handles = readerHandles)
             /\ g.ret = "false" <=> readerHandles[r].registered
             /\ g.ret = "true" =>
                   /\ g.handles[r].registered
                   /\ registerReader(g.map, g.handles, r).ret = "false"
             /\ g.ret = "false" => (g.map = map /\ g.handles = readerHandles)
    /\ \A w \in Writers :
          LET u == unregisterWriter(map, writerHandles, w)
          IN /\ u.ret = "true" <=> writerHandles[w].registered
             /\ u.ret = "true" =>
                   /\ ~u.handles[w].registered
                   /\ unregisterWriter(u.map, u.handles, w).ret = "false"
             /\ u.ret = "false" => (u.map = map /\ u.handles = writerHandles)

\* C8 witness: a reader and a writer have been unregistered, another reader
\* is registered
C8_Witness ==
    /\ \E r \in Readers : ~readerHandles[r].registered
    /\ \E r \in Readers : readerHandles[r].registered
    /\ \E w \in Writers : ~writerHandles[w].registered

\* C9 (the claim as stated): whatever registrations listeners change during
\* a pass, no listener is called a second time with the value of that pass
\* (the call reader() makes for a reader created during the pass counts).
C9_NoDuplicateDelivery ==
    \A i \in 1..Len(stack) : ~stack[i].dup

\* C10: when a set / setValue call returns during which listeners
\* unregistered their own reader and no other registration of the State
\* changed, every reader that was registered when the call began has been
\* called exactly once, and the readers that unregistered themselves are
\* out of the readers' Set, so no later pass calls them before register().
C10_SelfUnregisterSafe ==
    [][(PassEnds /\ Top.selfUnreg /\ ~Top.otherReg) =>
          /\ Top.seen = Top.snapshot
          /\ ~Top.dup
          /\ stack' = Below
          /\ \A r \in Top.snapshot :
                ~readerHandles[r].registered =>
                    r \notin SetMembers(map'[Top.id].readers) ]_vars

\* C10 witness: reader 1 unregistered itself in its listener, and the pass
\* went on to call reader 2, whose listener is the last one
C10_Witness ==
    /\ stack # <<>>
    /\ Top.obs /\ Top.selfUnreg /\ ~Top.otherReg
    /\ loopDone(Top, map)
    /\ Top.snapshot = {1, 2}
    /\ Top.seen = {1, 2}
    /\ Top.cur = 2
    /\ ~readerHandles[1].registered

C12_SnapshotDelivery ==
    [][PassEnds => Top.snapshot \subseteq Top.seen]_vars

\* user code whose listeners make no nested write: set, setValue, writer and
\* the writer's unregister are called from top-level code only; a listener
\* calls reader(), register() and unregister(), and returns
NextNoNestedWrite ==
    \/ \E id \in Ids : Reader(id)
    \/ stack = <<>> /\ \E id \in Ids, v \in ValuesU : Writer(id, v)
    \/ stack = <<>> /\ \E w \in 1..MaxWriters, v \in ValuesU : SetValue(w, v)
    \/ stack = <<>> /\ \E w \in 1..MaxWriters, f \in UpdateFns : Set(w, f)
    \/ stack = <<>> /\ \E w \in 1..MaxWriters : WriterUnregister(w)
    \/ \E r \in 1..MaxReaders : ReaderRegister(r)
    \/ \E r \in 1..MaxReaders : ReaderUnregister(r)
    \/ ListenerReturn

\* every listener call terminates: the running listener eventually returns
SpecLive ==
    Init /\ [][NextNoNestedWrite]_vars /\ WF_vars(ListenerReturn)

\* C13 (the claim as stated): when every listener call terminates and
\* listeners make no nested write, every set / setValue call returns: a
\* running fan-out always leads to the call stack being empty again.
C13_PassTerminates ==
    (stack # <<>>) ~> (stack = <<>>)

\* every State in the map is stored under its own id, and every handle is
\* bound to a State that is in the map
StatesKeyedById ==
    /\ \A id \in DOMAIN map : map[id].id = id
    /\ \A r \in Readers : readerHandles[r].state \in DOMAIN map
    /\ \A w \in Writers : writerHandles[w].state \in DOMAIN map

\* C14: the map only grows: an id that is in the map stays in it, mapped to
\* a State with that id; a reader(id) or a non-throwing writer(id) call puts
\* id in the map, and for an id already there it keeps the State (its value,
\* its writer slot resp. its readers are as before, the new handle added);
\* a step that unregisters a handle neither removes a State nor changes any
\* State's value, also when it unregisters the last handle.
C14_StateNeverRemoved ==
    /\ []StatesKeyedById
    /\ [][/\ \A id \in DOMAIN map :
                /\ id \in DOMAIN map'
                /\ map'[id].id = id
          /\ \A id \in Ids :
                ReaderStep(id) =>
                   /\ id \in DOMAIN map'
                   /\ id \in DOMAIN map =>
                         /\ map'[id].value = map[id].value
                         /\ map'[id].writer = map[id].writer
                         /\ map'[id].readers = Append(map[id].readers, Len(readerHandles'))
          /\ \A id \in Ids :
                (~writerConflict(map, id) /\ Writer(id, Undefined)) =>
                   /\ id \in DOMAIN map'
                   /\ id \in DOMAIN map =>
                         /\ map'[id].value = map[id].value
                         /\ map'[id].readers = map[id].readers
          /\ (\/ \E r \in Readers : readerHandles[r].registered /\ ~readerHandles'[r].registered
              \/ \E w \in Writers : writerHandles[w].registered /\ ~writerHandles'[w].registered) =>
                \A id \in DOMAIN map : map'[id].value = map[id].value ]_vars

\* C14 witness: State 1 has a value, has had two readers and a writer, and
\* all of them have unregistered: the State is still in the map with its
\* value
C14_Witness ==
    /\ 1 \in DOMAIN map
    /\ map[1].value # Undefined
    /\ map[1].readers = <<>>
    /\ map[1].writer = Undefined
    /\ Cardinality({r \in Readers : readerHandles[r].state = 1}) = 2
    /\ \E w \in Writers : writerHandles[w].state = 1

\* C15 (the claim as stated): a reader is never handed a stale value after a
\* newer one, so that its last delivery is the State's value when the
\* outermost call returns: whenever a listener is called, by a fan-out loop
\* or by reader(), the value it is called with is the current value of the
\* State, also when a listener made a nested set / setValue on that State
\* earlier in the fan-out.
C15_NoStaleDelivery ==
    [][ListenerEntered =>
          LET f == stack'[Len(stack')]
          IN f.argValue = map'[f.id].value ]_vars

\* C16 (the claim as stated): the writer slot of a State is never held by a
\* handle that no caller has received, unless the writer() call that created
\* it is still running (its initial-value fan-out is on the call stack).
C16_NoOrphanWriter ==
    \A id \in DOMAIN map :
        LET w == map[id].writer
        IN (w # Undefined /\ ~writerHandles[w].holder) =>
              \E i \in 1..Len(stack) : stack[i].kind = "pass" /\ stack[i].w = w

\* aRepo.reader(id, changeListener) on the instance repo
RepoReader(repo, id) ==
    Reader(stateKey(repo, id))

\* aRepo.writer(id, initialValue) on the instance repo
RepoWriter(repo, id, initialValue) ==
    Writer(stateKey(repo, id), initialValue)

\* user code working with several StateRepo instances
NextRepos ==
    \/ \E repo \in Repos, id \in Ids : RepoReader(repo, id)
    \/ \E repo \in Repos, id \in Ids, v \in ValuesU : RepoWriter(repo, id, v)
    \/ \E w \in 1..MaxWriters, v \in ValuesU : SetValue(w, v)
    \/ \E w \in 1..MaxWriters, f \in UpdateFns : Set(w, f)
    \/ \E w \in 1..MaxWriters : WriterUnregister(w)
    \/ \E r \in 1..MaxReaders : ReaderRegister(r)
    \/ \E r \in 1..MaxReaders : ReaderUnregister(r)
    \/ ListenerReturn

SpecRepos == Init /\ [][NextRepos]_vars

\* an operation that ends with map m and handles rhs, whs is confined to the
\* State instance repo keeps for id: every other State and the handles bound
\* to one are as they were, and no other State has been created
ConfinedTo(m, rhs, whs, repo, id) ==
    /\ \A k \in DOMAIN m \cup DOMAIN map :
          (repoOf(k) # repo \/ idOf(k) # id) =>
              /\ k \in DOMAIN m /\ k \in DOMAIN map
              /\ m[k] = map[k]
    /\ \A r \in 1..Len(rhs) :
          (repoOf(rhs[r].state) # repo \/ idOf(rhs[r].state) # id) =>
              (r \in Readers /\ rhs[r] = readerHandles[r])
    /\ \A w \in 1..Len(whs) :
          (repoOf(whs[w].state) # repo \/ idOf(whs[w].state) # id) =>
              (w \in Writers /\ whs[w] = writerHandles[w])

\* the listeners a fan-out over State k calls are those of the readers in
\* its Set, and a running listener call is one of them: all bound to k, as
\* is the writer whose set / setValue runs the fan-out
ListenersBoundToState ==
    /\ \A k \in DOMAIN map : \A r \in SetMembers(map[k].readers) :
          readerHandles[r].state = k
    /\ \A i \in 1..Len(stack) :
          /\ readerHandles[stack[i].cur].state = stack[i].id
          /\ stack[i].kind = "pass" => writerHandles[stack[i].w].state = stack[i].id

\* C17: in every reachable state every operation is confined to the State
\* of its instance and id: reader / writer called on an instance for an id,
\* set / setValue / unregister on a writer handle and register / unregister
\* on a reader handle leave every other State (another id of the instance,
\* any id of another instance, the same id included) and the handles bound
\* to it unchanged and create no other State; and the only listeners called
\* are those of readers bound to the State operated on.
C17_Frame ==
    /\ ListenersBoundToState
    /\ \A repo \in Repos, id \in Ids :
          LET n == readerNew(map, readerHandles, stateKey(repo, id))
          IN /\ ConfinedTo(n.map, n.handles, writerHandles, repo, id)
             /\ repoOf(n.handles[n.r].state) = repo
             /\ idOf(n.handles[n.r].state) = id
    /\ \A repo \in Repos, id \in Ids, v \in ValuesU :
          LET o == writer(map, writerHandles, stateKey(repo, id), v)
          IN /\ ConfinedTo(o.map, readerHandles, o.handles, repo, id)
             /\ ~o.threw =>
                   /\ repoOf(o.handles[o.w].state) = repo
                   /\ idOf(o.handles[o.w].state) = id
    /\ \A w \in Writers :
          LET k == writerHandles[w].state
              u == unregisterWriter(map, writerHandles, w)
          IN /\ \A v \in ValuesU :
                   ConfinedTo(assignValue(map, writerHandles, w, v),
                              readerHandles, writerHandles, repoOf(k), idOf(k))
             /\ ConfinedTo(u.map, readerHandles, u.handles, repoOf(k), idOf(k))
    /\ \A r \in Readers :
          LET k == readerHandles[r].state
              g == registerReader(map, readerHandles, r)
              u == unregisterReader(map, readerHandles, r)
          IN /\ ConfinedTo(g.map, g.handles, writerHandles, repoOf(k), idOf(k))
             /\ ConfinedTo(u.map, u.handles, writerHandles, repoOf(k), idOf(k))

\* C17 witness: two instances each keep a State for id 1, each with a
\* registered reader; a fan-out of the second instance's State is running
\* and the first instance's State for that id still has no value
C17_Witness ==
    /\ {stateKey(1, 1), stateKey(2, 1)} \subseteq DOMAIN map
    /\ map[stateKey(1, 1)].readers # <<>>
    /\ map[stateKey(1, 1)].value = Undefined
    /\ map[stateKey(2, 1)].readers # <<>>
    /\ map[stateKey(2, 1)].value # Undefined
    /\ stack # <<>>
    /\ Top.kind = "pass"
    /\ Top.id = stateKey(2, 1)

====
